---- MODULE Spec2Model ----
(***************************************************************************)
(* Worktree view extension: the repository registry (trackRepo, repos,     *)
(* trackedRepos), the per-repository watcher (Repo) and the readers of     *)
(* its snapshot.                                                           *)
(*                                                                         *)
(* Specifications:                                                         *)
(*   Spec      - synchronous trackRepo + Repo with the un-awaited initial  *)
(*               load and its watcher, while other processes change the    *)
(*               metadata on disk (src/src/extension.ts:276,               *)
(*               src/src/repo.ts)                                          *)
(*   SpecTrack - the same registry called with every spelling of a         *)
(*               directory, on a disk that does not change                 *)
(*   SpecAsync - asynchronous trackRepo guarded by trackedRepos and        *)
(*               awaiting Repo.init (src/unnamed/part_001:102-125)         *)
(*   SpecListing   - SpecAsync started on every disk                       *)
(*   SpecDispose   - Spec with the deactivation of the extension           *)
(*   SpecActivate  - the tracking loops of activate()                      *)
(*                   (src/unnamed/part_001:432-448)                        *)
(*   SpecContainer - Spec started with one linked worktree, whose removal  *)
(*                   removes the worktrees container                       *)
(*   SpecExecute   - execute (src/src/execute.ts)                          *)
(*   SpecPins      - GlobalStateManager (src/src/globalState.ts)           *)
(***************************************************************************)
EXTENDS Naturals, Integers, Sequences, FiniteSets, TLC

VARIABLES
    active,        \* extension activated and not yet deactivated
    repos,         \* const repos: Repo[]  (extension.ts:235)
    handlers,      \* in-flight handleUpdateWorktreeInfo calls, in start order
    events,        \* file-system events not yet delivered to a watcher listener
    disk,          \* .git/worktrees/<name>/{gitdir,HEAD} of every repository
    fired,         \* the payload of the latest updateEvent.fire, and a bit that
                   \* flips with every fire
    nchanges,      \* number of changes made on disk by other processes
    trackedRepos,  \* const trackedRepos: vscode.Uri[]  (part_001:107)
    calls,         \* in-flight and finished async trackRepo calls
    activate,      \* position of activate() in its tracking loops
    execs,         \* the execute calls made so far, with their child processes
    globalState    \* GlobalStateManager: the pins file, latestPins, the writes
                   \* and change events under way

vars == <<active, repos, handlers, events, disk, fired,
          nchanges, trackedRepos, calls, activate, execs, globalState>>

----------------------------------------------------------------------------
(* Bounds *)

MaxChanges == 1
MaxCalls == 3
MaxListed == 2
MaxExecs == 3
MaxPinCalls == 2

----------------------------------------------------------------------------
(* Values *)

Undefined == "undefined"
\* A metadata directory that does not exist (stat and readFile throw).
Absent == [gitdir |-> [ok |-> FALSE, path |-> "absent"],
           head |-> [kind |-> "absent", v |-> ""]]

\* Canonical directories of the repositories on disk.
Dirs == {"/r1", "/r2"}

\* Linked worktree metadata directories <dir>/.git/worktrees/<name>.
WtDirs == {<<"/r1", "a">>, <<"/r1", "b">>, <<"/r2", "c">>}

NameOrder == <<"a", "b", "c">>

\* URIs handed to trackRepo.  A URI is a path string; its drive letter may be
\* written in either case and the directory may be spelled with or without a
\* trailing slash.
URIs == { [drive |-> "c", rest |-> "/r1"],
          [drive |-> "C", rest |-> "/r1"],
          [drive |-> "c", rest |-> "/r1/"],
          [drive |-> "c", rest |-> "/r2"] }

\* The URIs of the repositories opened in the workspace, as the Git extension
\* reports them.
OpenedURIs == { [drive |-> "c", rest |-> "/r1"],
                [drive |-> "c", rest |-> "/r2"] }

\* The directory a URI denotes (what a canonicalization yields).
CanonDir(u) == IF u.rest = "/r1/" THEN "/r1" ELSE u.rest

LowerDrive(d) == IF d = "C" THEN "c" ELSE d

\* vscode.Uri.toString(skipEncoding): lower-cases the drive letter and
\* leaves the rest of the path as written.
UriToString(u) == <<LowerDrive(u.drive), u.rest>>

\* path.posix.join(uri.path, ...) followed by toString(): join normalizes the
\* trailing slash away.
uriJoinPath(u, name) == <<CanonDir(u), name>>

\* Contents of a gitdir file: "<path>/.git\n" or something else.
GitdirTexts == { [ok |-> TRUE, path |-> "/w1"],
                 [ok |-> TRUE, path |-> "/w2"],
                 [ok |-> FALSE, path |-> ""] }

\* Contents of a HEAD file: "ref: refs/heads/<v>\n", or the hash of a
\* detached HEAD.
HeadTexts == { [kind |-> "ref", v |-> "main"],
               [kind |-> "raw", v |-> "4f2a"] }

parseGitdirFile(text) == IF text.ok THEN text.path ELSE Undefined

parseWorktreeHEADReadable(text) == text.v

\* Event URIs below <dir>/.git: a file of a worktree's metadata directory,
\* the metadata directory itself, the worktrees container, or another path.
InfoFile(n) == [k |-> "file", n |-> n]
InfoDir(n) == [k |-> "dir", n |-> n]
Container == [k |-> "container", n |-> ""]
Other == [k |-> "other", n |-> ""]

parseWorktreeInfoDir(uri) ==
    IF uri.k \in {"file", "dir"} THEN uri.n ELSE Undefined

EmptyMap == [k \in {} |-> Undefined]

MapSet(m, k, v) == [x \in DOMAIN m \cup {k} |-> IF x = k THEN v ELSE m[x]]

MapDelete(m, k) == [x \in DOMAIN m \ {k} |-> m[x]]

RepositoryTreeID(u) == <<"repository", UriToString(u)>>

\* updateEvent.fire(undefined): refresh the whole tree.
WholeTree == <<"undefined", <<"", "">>>>

\* Nothing fired yet.
NoPayload == <<"none", <<"", "">>>>

RemoveAt(s, k) == SubSeq(s, 1, k - 1) \o SubSeq(s, k + 1, Len(s))

Present(d) == { wd \in WtDirs : wd[1] = d /\ disk[wd] # Absent }

\* The metadata `git worktree add` writes for a worktree: the worktree's
\* location, and the branch or the detached commit it is created on.
Fresh(wd) ==
    IF wd[2] = "b"
      THEN [gitdir |-> [ok |-> TRUE, path |-> "/w2"],
            head |-> [kind |-> "raw", v |-> "4f2a"]]
      ELSE [gitdir |-> [ok |-> TRUE, path |-> "/w1"],
            head |-> [kind |-> "ref", v |-> "main"]]

\* GlobalStateManager after init on an empty pins file.
NoPins == [file |-> <<>>, fileState |-> "array", latestPins |-> <<>>,
           writes |-> <<>>, changes |-> 0, log |-> <<>>]

\* activate() outside its tracking loops.
NotActivating ==
    [pc |-> "idle", list |-> <<>>, nrep |-> 0, next |-> 1, call |-> 0, stop |-> 0]

----------------------------------------------------------------------------
(* Initial state *)

Init ==
    /\ active = TRUE
    /\ repos = <<>>
    /\ handlers = <<>>
    /\ events = <<>>
    /\ disk = [wd \in WtDirs |-> IF wd[1] = "/r1" THEN Fresh(wd) ELSE Absent]
    /\ fired = [payload |-> NoPayload, n |-> 0]
    /\ nchanges = 0
    /\ trackedRepos = <<>>
    /\ calls = <<>>
    /\ activate = NotActivating
    /\ execs = <<>>
    /\ globalState = NoPins

----------------------------------------------------------------------------
(* Repo (src/src/repo.ts) *)

NewRepo(root) ==
    [ rootWorktree |-> root,
      otherWorktrees |-> EmptyMap,
      subscribed |-> TRUE,       \* the watcher and its three listeners
      load |-> "git" ]           \* position of the initial load `a()`

RepoDir(i) == CanonDir(repos[i].rootWorktree)

Fire(p) == [payload |-> p, n |-> 1 - fired.n]

\* Repo.updateTreeItem
updateTreeItem(i) == Fire(RepositoryTreeID(repos[i].rootWorktree))

\* A handleUpdateWorktreeInfo call suspended at its first await.
NewHandler(i, wd, src) ==
    [repo |-> i, key |-> wd, src |-> src, pc |-> "read",
     dir |-> Undefined, ref |-> Undefined]

\* trackRepo of the synchronous registry.
trackRepo(rootDir) ==
    /\ active
    /\ IF \E i \in 1..Len(repos) :
            UriToString(repos[i].rootWorktree) = UriToString(rootDir)
         THEN UNCHANGED <<repos, fired>>
         ELSE /\ repos' = Append(repos, NewRepo(rootDir))
              /\ fired' = Fire(WholeTree)
    /\ UNCHANGED <<active, handlers, events, disk, nchanges,
                   trackedRepos, calls, activate, execs, globalState>>

\* Initial load, first await: readDirectory(<root>/.git).
LoadGitDir(i) ==
    /\ repos[i].load = "git"
    /\ repos' = [repos EXCEPT ![i].load =
                    IF Present(RepoDir(i)) = {} THEN "done"
                    ELSE "worktrees"]
    /\ UNCHANGED <<active, handlers, events, disk, fired, nchanges,
                   trackedRepos, calls, activate, execs, globalState>>

\* The handlers the initial load starts, one per metadata directory found.
LoadHandlers(i) ==
    LET found == SelectSeq(NameOrder,
                    LAMBDA n : <<RepoDir(i), n>> \in Present(RepoDir(i)))
    IN  [k \in 1..Len(found) |->
            NewHandler(i, uriJoinPath(repos[i].rootWorktree, found[k]), "load")]

\* Initial load, second await: readDirectory(<root>/.git/worktrees), then one
\* un-awaited handleUpdateWorktreeInfo per directory.
LoadWorktrees(i) ==
    /\ repos[i].load = "worktrees"
    /\ IF Present(RepoDir(i)) = {}
         THEN /\ repos' = [repos EXCEPT ![i].load = "failed"]
              /\ UNCHANGED handlers
         ELSE /\ repos' = [repos EXCEPT ![i].load = "done"]
              /\ handlers' = handlers \o LoadHandlers(i)
    /\ UNCHANGED <<active, events, disk, fired, nchanges,
                   trackedRepos, calls, activate, execs, globalState>>

\* watcher.onDidCreate / onDidChange: handleUpdateWorktreeInfo up to its
\* first await.
DeliverUpdate ==
    /\ events # <<>>
    /\ Head(events).kind \in {"create", "change"}
    /\ LET e == Head(events)
           i == e.repo
           infoDir == parseWorktreeInfoDir(e.uri)
       IN  /\ events' = Tail(events)
           /\ IF infoDir = Undefined
                THEN /\ UNCHANGED handlers
                ELSE /\ handlers' = Append(handlers,
                                NewHandler(i, <<RepoDir(i), infoDir>>, "event"))
    /\ UNCHANGED <<active, repos, disk, fired, nchanges, trackedRepos, calls,
                   activate, execs, globalState>>

\* A delete listener that takes every deletion below .git for the deletion
\* of the worktrees container.
OnDidDeleteClears(i, uri) ==
    [repos[i] EXCEPT !.otherWorktrees = EmptyMap]

\* watcher.onDidDelete
OnDidDelete(i, uri) ==
    IF uri = Container
      THEN [repos[i] EXCEPT !.otherWorktrees = EmptyMap]
    ELSE IF uri.k = "dir" /\ <<RepoDir(i), uri.n>> \in DOMAIN repos[i].otherWorktrees
      THEN [repos[i] EXCEPT
              !.otherWorktrees = MapDelete(@, <<RepoDir(i), uri.n>>)]
    ELSE repos[i]

DeliverDelete ==
    /\ events # <<>>
    /\ Head(events).kind = "delete"
    /\ LET e == Head(events)
           i == e.repo
       IN  /\ events' = Tail(events)
           /\ repos' = [repos EXCEPT ![i] = OnDidDelete(i, e.uri)]
           /\ fired' = updateTreeItem(i)
    /\ UNCHANGED <<active, handlers, disk, nchanges, trackedRepos, calls, activate, execs, globalState>>

\* A handler that, when it cannot read the metadata, forgets the worktree and
\* refreshes the tree item.
HandlerFailsForgets(k) ==
    /\ handlers' = RemoveAt(handlers, k)
    /\ repos' = [repos EXCEPT ![handlers[k].repo].otherWorktrees =
                    MapDelete(@, handlers[k].key)]
    /\ fired' = updateTreeItem(handlers[k].repo)

\* A handler whose failure disposes the watcher of its Repo.
HandlerFailsStops(k) ==
    /\ handlers' = RemoveAt(handlers, k)
    /\ repos' = [repos EXCEPT ![handlers[k].repo].subscribed = FALSE]
    /\ UNCHANGED fired

\* The handler ends without touching the snapshot (early return or thrown
\* error of stat/readFile).
HandlerFails(k) ==
    /\ handlers' = RemoveAt(handlers, k)
    /\ UNCHANGED <<repos, fired>>

\* parseGitdirFile(<infoDir>/gitdir) and parseWorktreeHEADReadable(
\* <infoDir>/HEAD): the two files are read from disk.  stat throws when the
\* file is absent; an unparsable gitdir and an empty HEAD return early.
ReadInfo(k) ==
    /\ handlers[k].pc = "read"
    /\ LET wd == handlers[k].key
           dir == IF disk[wd] = Absent THEN Undefined
                  ELSE parseGitdirFile(disk[wd].gitdir)
           ref == IF disk[wd] = Absent THEN ""
                  ELSE parseWorktreeHEADReadable(disk[wd].head)
       IN  IF dir = Undefined \/ ref = ""
             THEN HandlerFails(k)
             ELSE /\ handlers' = [handlers EXCEPT ![k].pc = "apply",
                                    ![k].dir = dir, ![k].ref = ref]
                  /\ UNCHANGED <<repos, fired>>
    /\ UNCHANGED <<active, events, disk, nchanges, trackedRepos, calls, activate, execs, globalState>>

\* A continuation that stores the entry and leaves the tree item as it is.
ApplySilently(k) ==
    /\ handlers[k].pc = "apply"
    /\ repos' = [repos EXCEPT ![handlers[k].repo].otherWorktrees =
                    MapSet(@, handlers[k].key,
                           [dir |-> handlers[k].dir, ref |-> handlers[k].ref])]
    /\ handlers' = RemoveAt(handlers, k)
    /\ UNCHANGED <<active, events, disk, fired, nchanges, trackedRepos, calls,
                   activate, execs, globalState>>

\* A continuation that stores the entry in the snapshot of every Repo of the
\* registry.
ApplyToEveryRepo(k) ==
    /\ handlers[k].pc = "apply"
    /\ LET h == handlers[k]
       IN  /\ repos' = [j \in 1..Len(repos) |->
                          [repos[j] EXCEPT !.otherWorktrees =
                             MapSet(@, h.key, [dir |-> h.dir, ref |-> h.ref])]]
           /\ fired' = updateTreeItem(h.repo)
    /\ handlers' = RemoveAt(handlers, k)
    /\ UNCHANGED <<active, events, disk, nchanges, trackedRepos, calls,
                   activate, execs, globalState>>

\* A continuation that calls updateTreeItem first and leaves
\* otherWorktrees.set for afterwards.
ApplyNotifiesFirst(k) ==
    /\ handlers[k].pc = "apply"
    /\ fired' = updateTreeItem(handlers[k].repo)
    /\ handlers' = [handlers EXCEPT ![k].pc = "set"]
    /\ UNCHANGED <<active, repos, events, disk, nchanges, trackedRepos, calls,
                   activate, execs, globalState>>

\* The continuation after both reads: otherWorktrees.set and updateTreeItem.
Apply(k) ==
    /\ handlers[k].pc = "apply"
    /\ LET h == handlers[k]
       IN  /\ repos' = [repos EXCEPT ![h.repo].otherWorktrees =
                          MapSet(@, h.key, [dir |-> h.dir, ref |-> h.ref])]
           /\ fired' = updateTreeItem(h.repo)
    /\ handlers' = RemoveAt(handlers, k)
    /\ UNCHANGED <<active, events, disk, nchanges, trackedRepos, calls, activate, execs, globalState>>

\* Repo.dispose: every subscription is disposed and the list is emptied.
dispose(r) == [r EXCEPT !.subscribed = FALSE]

\* A deactivation that leaves the watchers and their listeners in place.
DisposeKeepsListening ==
    /\ active
    /\ repos # <<>>
    /\ active' = FALSE
    /\ UNCHANGED <<repos, handlers, events, disk, fired, nchanges,
                   trackedRepos, calls, activate, execs, globalState>>

\* Repo.dispose of every Repo in context.subscriptions, at deactivation.
\* Events not yet delivered find no listener.
Dispose ==
    /\ active
    /\ repos # <<>>
    /\ active' = FALSE
    /\ repos' = [i \in 1..Len(repos) |-> dispose(repos[i])]
    /\ events' = <<>>
    /\ UNCHANGED <<handlers, disk, fired, nchanges, trackedRepos, calls, activate, execs, globalState>>

\* dispose() called again on a Repo that is disposed already.
DisposeAgain(i) ==
    /\ ~repos[i].subscribed
    /\ repos' = [repos EXCEPT ![i] = dispose(repos[i])]
    /\ events' = SelectSeq(events, LAMBDA e : e.repo # i)
    /\ UNCHANGED <<active, handlers, disk, fired, nchanges, trackedRepos, calls,
                   activate, execs, globalState>>

----------------------------------------------------------------------------
(* Other processes changing the repository metadata on disk.  Each change is
   reported to the watcher of every Repo that watches the directory. *)

Watching(d) ==
    SelectSeq([i \in 1..Len(repos) |-> i],
              LAMBDA i : repos[i].subscribed /\ RepoDir(i) = d)

ReportTo(evs, d, kind, uri) ==
    LET w == Watching(d)
    IN  evs \o [k \in 1..Len(w) |-> [repo |-> w[k], kind |-> kind, uri |-> uri]]

Report(d, kind, uri) == ReportTo(events, d, kind, uri)

ValidEntry(e) == e.gitdir.ok /\ e.head.v # ""

\* A change on disk is made in a repository that is tracked (watched or, once
\* disposed, no longer watched), and within the budget of changes.
MayChange(d) ==
    /\ nchanges < MaxChanges
    /\ \E i \in 1..Len(repos) : RepoDir(i) = d

\* git worktree add: the metadata directory is created and its files are
\* written into it, which the watcher reports as a burst of create events.
ExtAdd(wd) ==
    /\ MayChange(wd[1])
    /\ disk[wd] = Absent
    /\ disk' = [disk EXCEPT ![wd] = Fresh(wd)]
    /\ events' = ReportTo(Report(wd[1], "create", InfoDir(wd[2])),
                          wd[1], "create", InfoFile(wd[2]))
    /\ nchanges' = nchanges + 1
    /\ UNCHANGED <<active, repos, handlers, fired, trackedRepos, calls, activate, execs, globalState>>

\* git worktree remove / prune: the metadata directory goes, and with the
\* last one the worktrees container goes too.
ExtRemove(wd) ==
    /\ MayChange(wd[1])
    /\ disk[wd] # Absent
    /\ disk' = [disk EXCEPT ![wd] = Absent]
    /\ events' = Report(wd[1], "delete",
                    IF Present(wd[1]) = {wd} THEN Container ELSE InfoDir(wd[2]))
    /\ nchanges' = nchanges + 1
    /\ UNCHANGED <<active, repos, handlers, fired, trackedRepos, calls, activate, execs, globalState>>

\* A write to the gitdir file of an existing worktree (git worktree move or
\* repair, a rewrite of the same content, a damaged file).
ExtWriteGitdir(wd, text) ==
    /\ MayChange(wd[1])
    /\ disk[wd] # Absent
    /\ disk' = [disk EXCEPT ![wd].gitdir = text]
    /\ events' = Report(wd[1], "change", InfoFile(wd[2]))
    /\ nchanges' = nchanges + 1
    /\ UNCHANGED <<active, repos, handlers, fired, trackedRepos, calls, activate, execs, globalState>>

\* A write to the HEAD file of an existing worktree (git switch, git commit
\* on a detached HEAD).
ExtWriteHEAD(wd, text) ==
    /\ MayChange(wd[1])
    /\ disk[wd] # Absent
    /\ disk' = [disk EXCEPT ![wd].head = text]
    /\ events' = Report(wd[1], "change", InfoFile(wd[2]))
    /\ nchanges' = nchanges + 1
    /\ UNCHANGED <<active, repos, handlers, fired, trackedRepos, calls, activate, execs, globalState>>

\* A change elsewhere below .git (refs, index, objects).
ExtOther(d, kind) ==
    /\ MayChange(d)
    /\ events' = Report(d, kind, Other)
    /\ nchanges' = nchanges + 1
    /\ UNCHANGED <<active, repos, handlers, disk, fired, trackedRepos, calls,
                   activate, execs, globalState>>

----------------------------------------------------------------------------
(* The synchronous registry with the watcher of src/src/repo.ts *)

Next ==
    \/ \E u \in OpenedURIs : trackRepo(u)
    \/ \E i \in 1..Len(repos) : LoadGitDir(i)
    \/ \E i \in 1..Len(repos) : LoadWorktrees(i)
    \/ DeliverUpdate
    \/ DeliverDelete
    \/ \E k \in 1..Len(handlers) : ReadInfo(k)
    \/ \E k \in 1..Len(handlers) : Apply(k)
    \/ \E wd \in WtDirs : ExtAdd(wd)
    \/ \E wd \in WtDirs : ExtRemove(wd)
    \/ \E wd \in WtDirs, t \in GitdirTexts : ExtWriteGitdir(wd, t)
    \/ \E wd \in WtDirs, t \in HeadTexts : ExtWriteHEAD(wd, t)
    \/ \E d \in Dirs, kind \in {"change", "delete"} : ExtOther(d, kind)

Spec == Init /\ [][Next]_vars

\* The registry and the watcher with the deactivation of the extension, while
\* other processes add and remove worktrees and switch their HEAD.
NextDispose ==
    \/ \E u \in OpenedURIs : trackRepo(u)
    \/ \E i \in 1..Len(repos) : LoadGitDir(i)
    \/ \E i \in 1..Len(repos) : LoadWorktrees(i)
    \/ DeliverUpdate
    \/ DeliverDelete
    \/ \E k \in 1..Len(handlers) : ReadInfo(k)
    \/ \E k \in 1..Len(handlers) : Apply(k)
    \/ \E wd \in WtDirs : ExtAdd(wd)
    \/ \E wd \in WtDirs : ExtRemove(wd)
    \/ \E wd \in WtDirs, t \in HeadTexts : ExtWriteHEAD(wd, t)
    \/ Dispose
    \/ \E i \in 1..Len(repos) : DisposeAgain(i)

SpecDispose == Init /\ [][NextDispose]_vars

\* git worktree remove followed at once by git worktree add of the same name,
\* before the watcher has delivered anything: the delete event of the first
\* command is followed by the create events of the second.
ExtRecreate(wd) ==
    /\ MayChange(wd[1])
    /\ disk[wd] # Absent
    /\ disk' = [disk EXCEPT ![wd] = Fresh(wd)]
    /\ events' = ReportTo(
                    ReportTo(
                      Report(wd[1], "delete",
                             IF Present(wd[1]) = {wd} THEN Container
                                                      ELSE InfoDir(wd[2])),
                      wd[1], "create", InfoDir(wd[2])),
                    wd[1], "create", InfoFile(wd[2]))
    /\ nchanges' = nchanges + 1
    /\ UNCHANGED <<active, repos, handlers, fired, trackedRepos, calls, activate, execs, globalState>>

\* A start with a single linked worktree on disk, whose gitdir file is as git
\* wrote it or damaged: removing the worktree removes the worktrees container
\* with it.
InitOneWorktree ==
    /\ active = TRUE
    /\ repos = <<>>
    /\ handlers = <<>>
    /\ events = <<>>
    /\ \E t \in {Fresh(<<"/r1", "a">>).gitdir, [ok |-> FALSE, path |-> ""]} :
         disk = [wd \in WtDirs |->
                   IF wd = <<"/r1", "a">>
                     THEN [Fresh(wd) EXCEPT !.gitdir = t]
                     ELSE Absent]
    /\ fired = [payload |-> NoPayload, n |-> 0]
    /\ nchanges = 0
    /\ trackedRepos = <<>>
    /\ calls = <<>>
    /\ activate = NotActivating
    /\ execs = <<>>
    /\ globalState = NoPins

NextContainer ==
    \/ \E u \in OpenedURIs : trackRepo(u)
    \/ \E i \in 1..Len(repos) : LoadGitDir(i)
    \/ \E i \in 1..Len(repos) : LoadWorktrees(i)
    \/ DeliverUpdate
    \/ DeliverDelete
    \/ \E k \in 1..Len(handlers) : ReadInfo(k)
    \/ \E k \in 1..Len(handlers) : Apply(k)
    \/ \E wd \in WtDirs : ExtAdd(wd)
    \/ \E wd \in WtDirs : ExtRemove(wd)
    \/ \E wd \in WtDirs : ExtRecreate(wd)
    \/ \E wd \in WtDirs, t \in GitdirTexts : ExtWriteGitdir(wd, t)

SpecContainer == InitOneWorktree /\ [][NextContainer]_vars

----------------------------------------------------------------------------
(* execute (src/src/execute.ts:38-75): one child process per call *)

Null == "null"

Platforms == {"win32", "linux"}

\* How the child process of cp.execFile can end: exit status 0, a non-zero
\* exit status, a failure to spawn, or killed (signal, timeout, maxBuffer).
Outcomes == {"exit0", "exit1", "ENOENT", "killed"}

\* cleanPath of a URI's path "/c:/dir": on win32 the leading slashes go.
cleanPath(u, platform) ==
    <<IF platform = "win32" THEN "" ELSE "/", u.drive, u.rest>>

\* What execFile hands to its callback for an outcome.
ExecResult(o) ==
    [error |-> IF o = "exit0" THEN Null ELSE o,
     stdout |-> IF o = "exit0" THEN "out" ELSE "",
     stderr |-> IF o = "exit1" THEN "fatal" ELSE ""]

\* execute up to the return of its promise: the paths are cleaned and
\* cp.execFile starts the child process.
execute(cwd, platform) ==
    /\ Len(execs) < MaxExecs
    /\ execs' = Append(execs, [cwd |-> cleanPath(cwd, platform), spawned |-> 1,
                               outcome |-> Undefined, resolved |-> 0,
                               result |-> ExecResult("exit0")])
    /\ UNCHANGED <<active, repos, handlers, events, disk, fired, nchanges,
                   trackedRepos, calls, activate, globalState>>

\* An execute whose callback runs the command again when it failed.
ExecCallbackRetries(c, o) ==
    /\ execs[c].resolved = 0
    /\ IF o = "exit0"
         THEN execs' = [execs EXCEPT ![c].outcome = o, ![c].resolved = @ + 1,
                                     ![c].result = ExecResult(o)]
         ELSE execs' = [execs EXCEPT ![c].spawned = @ + 1]
    /\ UNCHANGED <<active, repos, handlers, events, disk, fired, nchanges,
                   trackedRepos, calls, activate, globalState>>

\* The child process of call c has ended: execFile runs the callback, once,
\* and the callback resolves the promise with {error, stdout, stderr}.
ExecCallback(c, o) ==
    /\ execs[c].resolved = 0
    /\ execs' = [execs EXCEPT ![c].outcome = o, ![c].resolved = @ + 1,
                               ![c].result = ExecResult(o)]
    /\ UNCHANGED <<active, repos, handlers, events, disk, fired, nchanges,
                   trackedRepos, calls, activate, globalState>>

NextExecute ==
    \/ \E u \in OpenedURIs, platform \in Platforms : execute(u, platform)
    \/ \E c \in 1..Len(execs), o \in Outcomes : ExecCallback(c, o)

SpecExecute == Init /\ [][NextExecute]_vars

----------------------------------------------------------------------------
(* GlobalStateManager (src/src/globalState.ts): the pins file, its watcher
   and the commands that pin and unpin.  globalState.fileState tells whether
   the file holds a JSON array of strings ("array"), something else
   ("garbage") or does not exist ("missing"); globalState.file is the array
   when it holds one, latestPins the array parsed from it last, writes the
   writeFile calls awaiting completion, changes the number of change events
   of the file not yet handled, log the commands run and the outside writes
   made. *)

\* vscode.Uri.parse of a string that Uri.toString produced.
UriParse(str) == [drive |-> str[1], rest |-> str[2]]

\* The strings the pin commands take from a repository tree item.
PinArgs == { UriToString(u) : u \in URIs }

\* What the pins file can be turned into from outside the extension.
Spoilt == {"garbage", "missing"}

\* pins.map((uri) => uri.toString()): what writePins puts into the file.
pinStrings(pinUris) == [k \in 1..Len(pinUris) |-> UriToString(pinUris[k])]

\* pinsJson.map((p) => vscode.Uri.parse(p)): what updatePins makes of the file.
parsePins(pinsJson) == [k \in 1..Len(pinsJson) |-> UriParse(pinsJson[k])]

isPinned(str) ==
    \E k \in 1..Len(globalState.latestPins) :
      UriToString(globalState.latestPins[k]) = str

\* The watcher of the pins file ignores create and delete events: a write
\* is reported when the file existed before it.
ReportsWrite(g) == IF g.fileState = "missing" THEN 0 ELSE 1

\* An addPinned that also puts the new pins into latestPins right away.
addPinnedSetsLatest(uris) ==
    /\ Len(globalState.log) < MaxPinCalls
    /\ LET toAdd == SelectSeq(uris, LAMBDA str : ~isPinned(str))
           content == pinStrings(globalState.latestPins) \o toAdd
       IN  globalState' =
             [globalState EXCEPT
                !.log = Append(@, [op |-> "add", uris |-> uris]),
                !.latestPins = parsePins(content),
                !.writes = IF toAdd = <<>> THEN @ ELSE Append(@, content)]
    /\ UNCHANGED <<active, repos, handlers, events, disk, fired, nchanges,
                   trackedRepos, calls, activate, execs>>

\* addPinned up to its await: the URIs not pinned according to latestPins
\* are appended to latestPins and writePins is called with the result.
addPinned(uris) ==
    /\ Len(globalState.log) < MaxPinCalls
    /\ LET toAdd == SelectSeq(uris, LAMBDA str : ~isPinned(str))
           content == pinStrings(globalState.latestPins) \o toAdd
       IN  globalState' =
             [globalState EXCEPT
                !.log = Append(@, [op |-> "add", uris |-> uris]),
                !.writes = IF toAdd = <<>> THEN @ ELSE Append(@, content)]
    /\ UNCHANGED <<active, repos, handlers, events, disk, fired, nchanges,
                   trackedRepos, calls, activate, execs>>

\* A removePinned without the early return: it writes what is left of
\* latestPins also when nothing went.
removePinnedAlwaysWrites(uris) ==
    /\ Len(globalState.log) < MaxPinCalls
    /\ LET filtered == SelectSeq(globalState.latestPins,
                          LAMBDA pin : \A k \in 1..Len(uris) :
                                         uris[k] # UriToString(pin))
       IN  globalState' =
             [globalState EXCEPT
                !.log = Append(@, [op |-> "remove", uris |-> uris]),
                !.writes = Append(@, pinStrings(filtered))]
    /\ UNCHANGED <<active, repos, handlers, events, disk, fired, nchanges,
                   trackedRepos, calls, activate, execs>>

\* removePinned up to its await: latestPins without the given URIs is
\* written, unless nothing would go.
removePinned(uris) ==
    /\ Len(globalState.log) < MaxPinCalls
    /\ LET filtered == SelectSeq(globalState.latestPins,
                          LAMBDA pin : \A k \in 1..Len(uris) :
                                         uris[k] # UriToString(pin))
           content == pinStrings(filtered)
       IN  globalState' =
             [globalState EXCEPT
                !.log = Append(@, [op |-> "remove", uris |-> uris]),
                !.writes = IF Len(filtered) >= Len(globalState.latestPins)
                             THEN @ ELSE Append(@, content)]
    /\ UNCHANGED <<active, repos, handlers, events, disk, fired, nchanges,
                   trackedRepos, calls, activate, execs>>

\* The command worktrees.remove-all-pins up to its await: "[]" is written
\* to the pins file, whatever latestPins is.
removeAllPins ==
    /\ Len(globalState.log) < MaxPinCalls
    /\ globalState' =
         [globalState EXCEPT
            !.log = Append(@, [op |-> "removeAll", uris |-> <<>>]),
            !.writes = Append(@, <<>>)]
    /\ UNCHANGED <<active, repos, handlers, events, disk, fired, nchanges,
                   trackedRepos, calls, activate, execs>>

\* A writeFile of the extension completes: the file holds the array that
\* call was given, and the watcher of the pins file reports the change.
WritePins(k) ==
    /\ globalState' =
         [globalState EXCEPT !.file = globalState.writes[k],
                             !.fileState = "array",
                             !.writes = RemoveAt(@, k),
                             !.changes = @ + ReportsWrite(globalState)]
    /\ UNCHANGED <<active, repos, handlers, events, disk, fired, nchanges,
                   trackedRepos, calls, activate, execs>>

\* Somebody else deletes the pins file or writes into it what is no JSON
\* array of strings.
ExtSpoilPins(to) ==
    /\ Len(globalState.log) < MaxPinCalls
    /\ to = "missing" => globalState.fileState # "missing"
    /\ globalState' =
         [globalState EXCEPT
            !.log = Append(@, [op |-> to, uris |-> <<>>]),
            !.file = <<>>,
            !.fileState = to,
            !.changes = IF to = "garbage" THEN @ + ReportsWrite(globalState)
                                          ELSE @]
    /\ UNCHANGED <<active, repos, handlers, events, disk, fired, nchanges,
                   trackedRepos, calls, activate, execs>>

\* An updatePins that writes the file back also when it could be parsed.
updatePinsAlwaysWrites(g) ==
    [g EXCEPT !.latestPins = IF g.fileState = "array" THEN parsePins(g.file)
                                                      ELSE <<>>,
              !.file = IF g.fileState = "array" THEN @ ELSE <<>>,
              !.fileState = "array",
              !.changes = @ + ReportsWrite(g)]

\* updatePins on the manager g: the array of the file is parsed into
\* latestPins; when reading or parsing fails, latestPins becomes the empty
\* array and "[]" is written to the file.
updatePins(g) ==
    IF g.fileState = "array"
      THEN [g EXCEPT !.latestPins = parsePins(g.file)]
      ELSE [g EXCEPT !.latestPins = <<>>,
                     !.file = <<>>,
                     !.fileState = "array",
                     !.changes = @ + ReportsWrite(g)]

\* trackRepo of the synchronous registry for each pin in turn.
RECURSIVE TrackAll(_, _)
TrackAll(rs, newPins) ==
    IF newPins = <<>> THEN rs
    ELSE TrackAll(
           IF \E i \in 1..Len(rs) :
                UriToString(rs[i].rootWorktree) = UriToString(Head(newPins))
             THEN rs
             ELSE Append(rs, NewRepo(Head(newPins))),
           Tail(newPins))

\* A pins_changed subscriber that also drops the Repos that are no longer
\* pinned.
PinsChangedUntracks ==
    /\ globalState.changes > 0
    /\ LET updated == updatePins([globalState EXCEPT !.changes = @ - 1])
           newPins == updated.latestPins
           kept == SelectSeq(repos, LAMBDA r :
                     \E k \in 1..Len(newPins) :
                       UriToString(newPins[k]) = UriToString(r.rootWorktree))
           tracked == TrackAll(kept, newPins)
       IN  /\ globalState' = updated
           /\ repos' = tracked
           /\ fired' = [payload |-> WholeTree, n |-> 1 - fired.n]
    /\ UNCHANGED <<active, handlers, events, disk, nchanges,
                   trackedRepos, calls, activate, execs>>

\* watcher.onDidChange of the pins file: updatePins, then pins_changed is
\* fired with latestPins, and its subscriber tracks every pin and refreshes
\* the whole tree.
PinsChanged ==
    /\ globalState.changes > 0
    /\ LET updated == updatePins([globalState EXCEPT !.changes = @ - 1])
           newPins == updated.latestPins
           tracked == TrackAll(repos, newPins)
       IN  /\ globalState' = updated
           /\ repos' = tracked
           /\ fired' = [payload |-> WholeTree,
                        n |-> (fired.n + (Len(tracked) - Len(repos)) + 1) % 2]
    /\ UNCHANGED <<active, handlers, events, disk, nchanges,
                   trackedRepos, calls, activate, execs>>

NextPins ==
    \/ \E str \in PinArgs : addPinned(<<str>>)
    \/ \E s1, s2 \in PinArgs : addPinned(<<s1, s2>>)
    \/ \E str \in PinArgs : removePinned(<<str>>)
    \/ removeAllPins
    \/ \E k \in 1..Len(globalState.writes) : WritePins(k)
    \/ \E to \in Spoilt : ExtSpoilPins(to)
    \/ PinsChanged

SpecPins == Init /\ [][NextPins]_vars

----------------------------------------------------------------------------
(* Readers of the registry and of a Repo's snapshot (the tree view) *)

NotFound == 0

\* A subworktree tree id: the metadata directory's URI string.
SubworktreeTreeID(wd) == <<"subworktree", wd>>

\* findRepo: for a repository tree id repos.find, the first Repo of that
\* identity; for any other tree id the first Repo whose otherWorktrees has
\* the id's content as a key; undefined when there is none.
findRepo(treeid) ==
    LET m == { i \in 1..Len(repos) :
                 IF treeid[1] = "repository"
                   THEN RepositoryTreeID(repos[i].rootWorktree) = treeid
                   ELSE treeid[2] \in DOMAIN repos[i].otherWorktrees }
    IN  IF m = {} THEN NotFound ELSE CHOOSE i \in m : \A j \in m : i <= j

\* findSubworktree / findWorktree finding nothing: return undefined.
NoEntry == [repo |-> NotFound, info |-> Undefined]

\* A findSubworktree that keeps searching and returns the entry of the last
\* Repo that has one.
findSubworktreeLast(treeid) ==
    LET m == { i \in 1..Len(repos) : treeid[2] \in DOMAIN repos[i].otherWorktrees }
    IN  IF m = {} THEN NoEntry
        ELSE LET i == CHOOSE i \in m : \A j \in m : j <= i
             IN  [repo |-> i, info |-> repos[i].otherWorktrees[treeid[2]]]

\* findSubworktree: the SubWorktreeInfo object of the first Repo whose
\* otherWorktrees has the key, undefined when there is none.  The object is
\* the one held by that Repo's map: `repo` tells whose.
findSubworktree(treeid) ==
    LET m == { i \in 1..Len(repos) : treeid[2] \in DOMAIN repos[i].otherWorktrees }
    IN  IF m = {} THEN NoEntry
        ELSE LET i == CHOOSE i \in m : \A j \in m : i <= j
             IN  [repo |-> i, info |-> repos[i].otherWorktrees[treeid[2]]]

\* getChildren of a repository tree id: the keys of the Repo's otherWorktrees.
getChildren(treeid) == DOMAIN repos[findRepo(treeid)].otherWorktrees

\* What .git/worktrees of a directory holds: every metadata directory with
\* the location and the ref its files parse to.
DiskView(d) ==
    [wd \in Present(d) |-> [dir |-> parseGitdirFile(disk[wd].gitdir),
                            ref |-> parseWorktreeHEADReadable(disk[wd].head)]]

----------------------------------------------------------------------------
(* The synchronous registry called with every spelling of a directory (the
   opened repositories, the root parsed from a linked worktree's .git file,
   the pins), on a disk that does not change meanwhile *)

NextTrack ==
    \/ \E u \in URIs : trackRepo(u)
    \/ \E i \in 1..Len(repos) : LoadGitDir(i)
    \/ \E i \in 1..Len(repos) : LoadWorktrees(i)
    \/ \E k \in 1..Len(handlers) : ReadInfo(k)
    \/ \E k \in 1..Len(handlers) : Apply(k)

SpecTrack == Init /\ [][NextTrack]_vars

----------------------------------------------------------------------------
(* The asynchronous registry (src/unnamed/part_001:102-125) *)

SameUri(u, v) == UriToString(u) = UriToString(v)

\* A trackRepo that checks trackedRepos but leaves the insertion to the code
\* after the await.
trackRepoInsertsLate(dotgitdir) ==
    /\ active
    /\ Len(calls) < MaxCalls
    /\ IF \E k \in 1..Len(trackedRepos) : SameUri(trackedRepos[k], dotgitdir)
         THEN calls' = Append(calls, [uri |-> dotgitdir, pc |-> "skipped"])
         ELSE calls' = Append(calls, [uri |-> dotgitdir, pc |-> "init"])
    /\ UNCHANGED <<active, repos, handlers, events, disk, fired, nchanges,
                   trackedRepos, activate, execs, globalState>>

\* trackRepo up to its first suspension point: the duplicate check, the push
\* onto trackedRepos and the call of Repo.init.  A call either returns at
\* once ("skipped") or is left awaiting Repo.init ("init").
trackRepoAsync(dotgitdir) ==
    /\ active
    /\ Len(calls) < MaxCalls
    /\ IF \E k \in 1..Len(trackedRepos) : SameUri(trackedRepos[k], dotgitdir)
         THEN /\ calls' = Append(calls, [uri |-> dotgitdir, pc |-> "skipped"])
              /\ UNCHANGED trackedRepos
         ELSE /\ trackedRepos' = Append(trackedRepos, dotgitdir)
              /\ calls' = Append(calls, [uri |-> dotgitdir, pc |-> "init"])
    /\ UNCHANGED <<active, repos, handlers, events, disk, fired, nchanges, activate, execs, globalState>>

\* Repositories created with `git init --bare`: they have no checkout.
BareDirs == {"/r2"}

\* The records of `git worktree list --porcelain` for a repository, in the
\* order git emits them: the main worktree (for a bare repository a record
\* with the keyword "bare" and no HEAD field), then the linked worktrees.
\* `order` is the zero-based position of the record in the listing.
worktreeList(d) ==
    LET linked == SelectSeq(NameOrder,
                    LAMBDA n : /\ <<d, n>> \in Present(d)
                               /\ disk[<<d, n>>].gitdir.ok)
        main == IF d \in BareDirs
                  THEN [worktree |-> d, HEAD |-> Undefined, branch |-> Undefined,
                        bare |-> TRUE, order |-> 0]
                  ELSE [worktree |-> d, HEAD |-> "c0de", branch |-> "main",
                        bare |-> FALSE, order |-> 0]
    IN  <<main>> \o
        [k \in 1..Len(linked) |->
           LET info == disk[<<d, linked[k]>>]
           IN  [worktree |-> info.gitdir.path,
                HEAD |-> IF info.head.kind = "raw" THEN info.head.v ELSE "c0de",
                branch |-> IF info.head.kind = "ref" THEN info.head.v
                                                     ELSE Undefined,
                bare |-> FALSE, order |-> k]]

\* A worktrees map whose records are numbered again after the bare ones
\* were left out.
worktreesRenumbered(records) ==
    LET kept == SelectSeq(records, LAMBDA r : ~r.bare)
    IN  [p \in { kept[k].worktree : k \in 1..Len(kept) } |->
           LET k == CHOOSE j \in 1..Len(kept) : kept[j].worktree = p
           IN  [kept[k] EXCEPT !.order = k - 1]]

\* A worktrees map that keeps every record of the listing, bare or not.
worktreesKeepBare(records) ==
    [p \in { records[k].worktree : k \in 1..Len(records) } |->
       LET k == CHOOSE j \in 1..Len(records) : records[j].worktree = p
       IN  records[k]]

\* The externally visible worktrees map of a Repo: the records of the
\* listing keyed by worktree path, the bare ones left out after the order
\* numbers were assigned.
worktreesMap(records) ==
    [p \in { records[k].worktree :
               k \in { j \in 1..Len(records) : ~records[j].bare } } |->
       LET k == CHOOSE j \in 1..Len(records) : records[j].worktree = p
       IN  records[k]]

\* The Repo that Repo.init resolves to: its snapshot is the result of the
\* initial query.
InitRepo(dotgitdir) ==
    [ rootWorktree |-> dotgitdir,
      otherWorktrees |-> DiskView(CanonDir(dotgitdir)),
      worktrees |-> worktreesMap(worktreeList(CanonDir(dotgitdir))),
      subscribed |-> TRUE,
      load |-> "done" ]

\* Repo.init resolves: the rest of trackRepo runs.
InitResolves(c) ==
    /\ calls[c].pc = "init"
    /\ repos' = Append(repos, InitRepo(calls[c].uri))
    /\ fired' = Fire(WholeTree)
    /\ calls' = [calls EXCEPT ![c].pc = "done"]
    /\ UNCHANGED <<active, handlers, events, disk, nchanges, trackedRepos, activate, execs, globalState>>

\* Repo.init rejects: trackRepo rejects at its await.
InitRejects(c) ==
    /\ calls[c].pc = "init"
    /\ calls' = [calls EXCEPT ![c].pc = "failed"]
    /\ UNCHANGED <<active, repos, handlers, events, disk, fired, nchanges,
                   trackedRepos, activate, execs, globalState>>

\* getChildren of a repository item in the asynchronous revision: the
\* worktrees of the Repo that have a HEAD.
getChildrenOfRepo(i) ==
    { k \in DOMAIN repos[i].worktrees : repos[i].worktrees[k].HEAD # Undefined }

\* The items pickWorktree offers in its quick pick: every entry of every
\* Repo's worktrees, whatever its HEAD.
pickWorktree ==
    UNION { DOMAIN repos[i].worktrees : i \in 1..Len(repos) }

\* A worktree tree id: the worktree's path.
WorktreeTreeID(path) == <<"worktree", path>>

\* The outcome of a lookup that throws.
Threw == -1

\* A findRepo that treats a tree id no Repo matches as an unrecognized one.
findRepoThrowsOnMiss(treeid) ==
    LET m == { i \in 1..Len(repos) :
                 \/ /\ treeid[1] = "repository"
                    /\ RepositoryTreeID(repos[i].rootWorktree) = treeid
                 \/ /\ treeid[1] = "worktree"
                    /\ treeid[2] \in DOMAIN repos[i].worktrees }
    IN  IF m = {} THEN Threw ELSE CHOOSE i \in m : \A j \in m : i <= j

\* findRepo of the asynchronous revision: repos.find by identity for a
\* repository tree id, repos.find by worktrees.has for a worktree tree id
\* (undefined when no Repo matches), and an Error for any other tree id.
findRepoOfTreeID(treeid) ==
    LET m == { i \in 1..Len(repos) :
                 \/ /\ treeid[1] = "repository"
                    /\ RepositoryTreeID(repos[i].rootWorktree) = treeid
                 \/ /\ treeid[1] = "worktree"
                    /\ treeid[2] \in DOMAIN repos[i].worktrees }
    IN  IF treeid[1] \notin {"repository", "worktree"} THEN Threw
        ELSE IF m = {} THEN NotFound
        ELSE CHOOSE i \in m : \A j \in m : i <= j

\* A start on any disk: each metadata directory is there, as git wrote it,
\* or is not.
InitAnyDisk ==
    /\ active = TRUE
    /\ repos = <<>>
    /\ handlers = <<>>
    /\ events = <<>>
    /\ disk \in [WtDirs -> {Absent} \cup { Fresh(wd) : wd \in WtDirs }]
    /\ \A wd \in WtDirs : disk[wd] \in {Absent, Fresh(wd)}
    /\ fired = [payload |-> NoPayload, n |-> 0]
    /\ nchanges = 0
    /\ trackedRepos = <<>>
    /\ calls = <<>>
    /\ activate = NotActivating
    /\ execs = <<>>
    /\ globalState = NoPins

NextAsync ==
    \/ \E u \in URIs : trackRepoAsync(u)
    \/ \E c \in 1..Len(calls) : InitResolves(c)
    \/ \E c \in 1..Len(calls) : InitRejects(c)

SpecAsync == Init /\ [][NextAsync]_vars

\* The asynchronous registry over every listing git can emit for the
\* repositories.
SpecListing == InitAnyDisk /\ [][NextAsync]_vars

----------------------------------------------------------------------------
(* activate() of the asynchronous registry (src/unnamed/part_001:432-449):
   one awaited trackRepo per repository the Git extension already knows, then
   one per pin, while onDidOpenRepository and pins_changed start trackRepo
   calls of their own *)

\* Sequences of at most n elements of S.
SeqUpTo(S, n) == UNION { [1..m -> S] : m \in 0..n }

\* activate() entering its loops with the repositories the Git extension
\* enumerates and the pins read from the pins file.
Activating(repositories, pins) ==
    [pc |-> "loop", list |-> repositories \o pins, nrep |-> Len(repositories),
     next |-> 1, call |-> 0, stop |-> 0]

InitActivate ==
    /\ active = TRUE
    /\ repos = <<>>
    /\ handlers = <<>>
    /\ events = <<>>
    /\ disk = [wd \in WtDirs |-> IF wd[1] = "/r1" THEN Fresh(wd) ELSE Absent]
    /\ fired = [payload |-> NoPayload, n |-> 0]
    /\ nchanges = 0
    /\ trackedRepos = <<>>
    /\ calls = <<>>
    /\ \E repositories \in SeqUpTo(OpenedURIs, MaxListed),
          pins \in SeqUpTo(URIs, MaxListed) :
          activate = Activating(repositories, pins)
    /\ execs = <<>>
    /\ globalState = NoPins

\* git rev-parse --git-common-dir fails for a repository of the first loop:
\* the error message is shown and activate() returns.
ActivateExecFails ==
    /\ activate.pc = "loop"
    /\ activate.next <= activate.nrep
    /\ activate' = [activate EXCEPT !.pc = "returned", !.stop = activate.next]
    /\ UNCHANGED <<active, repos, handlers, events, disk, fired, nchanges,
                   trackedRepos, calls, execs, globalState>>

\* One iteration of a loop: await trackRepo(...).  A duplicate returns at
\* once and the loop goes on; otherwise activate() is left awaiting the call.
ActivateTrack ==
    /\ activate.pc = "loop"
    /\ activate.next <= Len(activate.list)
    /\ LET dotgitdir == activate.list[activate.next]
       IN  IF \E k \in 1..Len(trackedRepos) : SameUri(trackedRepos[k], dotgitdir)
             THEN /\ calls' = Append(calls, [uri |-> dotgitdir, pc |-> "skipped"])
                  /\ activate' = [activate EXCEPT !.next = @ + 1]
                  /\ UNCHANGED trackedRepos
             ELSE /\ trackedRepos' = Append(trackedRepos, dotgitdir)
                  /\ calls' = Append(calls, [uri |-> dotgitdir, pc |-> "init"])
                  /\ activate' = [activate EXCEPT !.pc = "await",
                                                  !.call = Len(calls) + 1]
    /\ UNCHANGED <<active, repos, handlers, events, disk, fired, nchanges,
                   execs, globalState>>

\* The awaited trackRepo has settled: the loop goes on, or the rejection
\* leaves activate() through the await.
ActivateResume ==
    /\ activate.pc = "await"
    /\ calls[activate.call].pc \in {"done", "failed"}
    /\ activate' = IF calls[activate.call].pc = "done"
                     THEN [activate EXCEPT !.pc = "loop", !.next = @ + 1]
                     ELSE [activate EXCEPT !.pc = "aborted"]
    /\ UNCHANGED <<active, repos, handlers, events, disk, fired, nchanges,
                   trackedRepos, calls, execs, globalState>>

\* Both loops are through: "Reached the end of activate()".
ActivateEnd ==
    /\ activate.pc = "loop"
    /\ activate.next > Len(activate.list)
    /\ activate' = [activate EXCEPT !.pc = "done"]
    /\ UNCHANGED <<active, repos, handlers, events, disk, fired, nchanges,
                   trackedRepos, calls, execs, globalState>>

NextActivate ==
    \/ ActivateExecFails
    \/ ActivateTrack
    \/ ActivateResume
    \/ ActivateEnd
    \/ \E u \in OpenedURIs : trackRepoAsync(u)
    \/ \E c \in 1..Len(calls) : InitResolves(c)
    \/ \E c \in 1..Len(calls) : InitRejects(c)

SpecActivate == InitActivate /\ [][NextActivate]_vars

----------------------------------------------------------------------------
(* Properties of the registry *)

\* C1: after any sequence of trackRepo calls the registry holds at most one
\* Repo per directory, whatever spelling of the directory each call was given.
C1_OneRepoPerDirectory ==
    \A i, j \in 1..Len(repos) :
        CanonDir(repos[i].rootWorktree) = CanonDir(repos[j].rootWorktree)
            => i = j

\* A call has passed the duplicate check and called Repo.init.
Constructs(c) == calls[c].pc \in {"init", "done", "failed"}

\* C2: of the trackRepo calls given the same directory, at most one gets past
\* the duplicate check and constructs a Repo, also when a later call starts
\* while an earlier one is still awaiting Repo.init.
C2_AtMostOneConstruction ==
    \A c, d \in 1..Len(calls) :
        (Constructs(c) /\ Constructs(d) /\ SameUri(calls[c].uri, calls[d].uri))
            => c = d

\* Two calls for one directory overlap: the first still awaits Repo.init when
\* the second has run.
C2_OverlapWitness ==
    \E c, d \in 1..Len(calls) :
        /\ c < d
        /\ SameUri(calls[c].uri, calls[d].uri)
        /\ calls[c].pc = "init"
        /\ calls[d].pc = "skipped"
        /\ repos = <<>>

\* C3: when a trackRepo call that found an earlier call for its directory
\* still constructing has completed, the Repo of that directory is in the
\* registry and findRepo finds it.
C3_SecondCallFindsRepo ==
    \A c \in 1..Len(calls) :
        calls[c].pc = "skipped"
            => findRepo(RepositoryTreeID(calls[c].uri)) # NotFound

----------------------------------------------------------------------------
(* Properties of the watcher *)

HandlersOf(i) == { k \in 1..Len(handlers) : handlers[k].repo = i }

EventHandlersOf(i) == { k \in HandlersOf(i) : handlers[k].src = "event" }

\* The initial load of a Repo has not finished: its directory listings or one
\* of the handlers it started is still running.
InitialSyncInFlight(i) ==
    \/ repos[i].load \in {"git", "worktrees"}
    \/ \E k \in HandlersOf(i) : handlers[k].src = "load"

\* C4: for one repository at most one re-synchronization is in flight: a
\* handler started by a filesystem event never runs beside another handler of
\* the same repository.
C4_OneResyncInFlight ==
    \A i \in 1..Len(repos) :
        \A k \in EventHandlersOf(i) : HandlersOf(i) = {k}

\* C5: the events that arrive while a synchronization of a repository is in
\* flight start at most one follow-up: beside a running initial load there is
\* never more than one handler started by an event.
C5_AtMostOneFollowUp ==
    \A i \in 1..Len(repos) :
        InitialSyncInFlight(i) => Cardinality(EventHandlersOf(i)) <= 1

SameSnapshots ==
    /\ Len(repos') = Len(repos)
    /\ \A i \in 1..Len(repos) :
          repos'[i].otherWorktrees = repos[i].otherWorktrees

\* C6: a step that leaves every repository's snapshot as it was fires no
\* change notification.
C6_NoNotificationWithoutChange ==
    [][SameSnapshots => fired' = fired]_vars

\* C7: what getChildren returns for a repository is a snapshot in full: with
\* the disk unchanged, either the snapshot before the initial load (no
\* worktree) or the one after it (every worktree on disk).
C7_ReadersSeeWholeSnapshot ==
    \A i \in 1..Len(repos) :
        getChildren(RepositoryTreeID(repos[i].rootWorktree))
            \in { {}, Present(RepoDir(i)) }

\* C8: a handler that ends at its reads (the metadata cannot be read or does
\* not parse) leaves every snapshot as it was and fires nothing.
C8_FailedResyncKeepsSnapshot ==
    [][\A k \in 1..Len(handlers) :
          (handlers[k].pc = "read" /\ handlers' = RemoveAt(handlers, k))
              => (repos' = repos /\ fired' = fired)]_vars

\* The handler of the event of a damaged gitdir file has run and failed: the
\* file on disk does not parse, nothing is pending and the snapshot still
\* holds the worktree with the location read earlier.
C8_FailedResyncWitness ==
    /\ nchanges > 0
    /\ events = <<>>
    /\ handlers = <<>>
    /\ \E i \in 1..Len(repos) :
          \E wd \in DOMAIN repos[i].otherWorktrees :
              /\ disk[wd] # Absent
              /\ parseGitdirFile(disk[wd].gitdir) = Undefined
              /\ repos[i].otherWorktrees[wd].dir = Fresh(wd).gitdir.path

\* C9: a Repo that readers can find has completed its initial load
\* successfully.
C9_VisibleOnlyAfterInitialSync ==
    \A i \in 1..Len(repos) :
        findRepo(RepositoryTreeID(repos[i].rootWorktree)) # NotFound
            => (repos[i].load = "done" /\ ~InitialSyncInFlight(i))

\* Nothing is pending: every event is delivered, every handler has ended and
\* every initial load is over.
Quiescent ==
    /\ events = <<>>
    /\ handlers = <<>>
    /\ \A i \in 1..Len(repos) : repos[i].load \in {"done", "failed"}

AllOnDiskValid ==
    \A wd \in WtDirs : disk[wd] = Absent \/ ValidEntry(disk[wd])

\* C10: once every pending event has been handled, each repository's snapshot
\* equals the linked worktrees on disk, each with its current location and
\* ref.
C10_QuiescentMatchesDisk ==
    (Quiescent /\ AllOnDiskValid)
        => \A i \in 1..Len(repos) :
              repos[i].otherWorktrees = DiskView(RepoDir(i))

----------------------------------------------------------------------------
(* Order of results, notifications and worktree paths *)

\* The step is the continuation of handler k storing its result.
Applies(k) ==
    /\ handlers[k].pc = "apply"
    /\ handlers' = RemoveAt(handlers, k)

\* Handler j started before handler k for the same worktree of the same
\* repository, and holds a different result that it has yet to store.
EarlierResultPending(j, k) ==
    /\ j < k
    /\ handlers[j].repo = handlers[k].repo
    /\ handlers[j].key = handlers[k].key
    /\ handlers[j].pc = "apply"
    /\ <<handlers[j].dir, handlers[j].ref>> # <<handlers[k].dir, handlers[k].ref>>

\* C11: results are stored in the order their handlers started: no handler
\* stores its result while a handler that started earlier still holds a
\* different result for the same entry, which it would store afterwards over
\* the later one.
C11_AppliedInStartOrder ==
    [][\A k \in 1..Len(handlers) :
          Applies(k) => ~ \E j \in 1..Len(handlers) : EarlierResultPending(j, k)]_vars

\* C14: every step that changes the snapshot of a repository fires a
\* notification whose payload is that repository's tree id and nothing else.
C14_ChangeIsNotified ==
    [][\A i \in 1..Len(repos) :
          (Len(repos') = Len(repos)
             /\ repos'[i].otherWorktrees # repos[i].otherWorktrees)
              => fired' = Fire(RepositoryTreeID(repos[i].rootWorktree))]_vars

\* An entry was added, another replaced by different data and the last
\* notification names the repository.
C14_ChangeWitness ==
    \E i \in 1..Len(repos) :
        /\ fired.payload = RepositoryTreeID(repos[i].rootWorktree)
        /\ nchanges > 0
        /\ \E wd \in DOMAIN repos[i].otherWorktrees :
              /\ disk[wd] # Absent
              /\ disk[wd] # Fresh(wd)
              /\ repos[i].otherWorktrees[wd] = DiskView(RepoDir(i))[wd]

\* C18: in every snapshot no two entries have the same worktree path.
C18_NoTwoEntriesShareAPath ==
    \A i \in 1..Len(repos) :
        \A wd, we \in DOMAIN repos[i].otherWorktrees :
            repos[i].otherWorktrees[wd].dir = repos[i].otherWorktrees[we].dir
                => wd = we

----------------------------------------------------------------------------
(* Dispose *)

\* C12: from the moment dispose() has returned, the disposed repository's
\* snapshot is not modified and no notification is fired for it.
C12_DisposedIsFrozen ==
    [][\A i \in 1..Len(repos) :
          (~repos[i].subscribed /\ Len(repos') = Len(repos))
              => /\ repos'[i].otherWorktrees = repos[i].otherWorktrees
                 /\ \/ fired' = fired
                    \/ fired'.payload # RepositoryTreeID(repos[i].rootWorktree)]_vars

NumEventHandlers(hs) ==
    Cardinality({ k \in 1..Len(hs) : hs[k].src = "event" })

\* C13: once the Repos are disposed they stay disposed, whatever is called or
\* changes on disk afterwards (dispose() again included): no listener is
\* subscribed, no event is pending for delivery and no event starts a handler.
C13_DisposedIsTerminal ==
    [][~active =>
          /\ ~active'
          /\ Len(repos') = Len(repos)
          /\ \A i \in 1..Len(repos) : ~repos'[i].subscribed
          /\ events' = <<>>
          /\ NumEventHandlers(handlers') <= NumEventHandlers(handlers)]_vars

\* The Repos are disposed, the disk has changed, and neither an event nor a
\* handler is pending although a snapshot is behind the disk.
C13_DisposedWitness ==
    /\ ~active
    /\ nchanges > 0
    /\ events = <<>>
    /\ handlers = <<>>
    /\ \E i \in 1..Len(repos) :
          /\ ~repos[i].subscribed
          /\ repos[i].load = "done"
          /\ repos[i].otherWorktrees # DiskView(RepoDir(i))

----------------------------------------------------------------------------
(* activate(): what is tracked when it is over *)

\* activate() has ended (normally, by its return after a failed rev-parse, or
\* by the rejection of an awaited trackRepo) and no trackRepo call is pending.
ActivateOver ==
    /\ activate.pc \in {"done", "returned", "aborted"}
    /\ \A c \in 1..Len(calls) : calls[c].pc # "init"

Tracked(u) == \E i \in 1..Len(repos) : SameUri(repos[i].rootWorktree, u)

\* Tracking the k-th listed repository failed by itself: its rev-parse
\* failed, or a Repo.init for it rejected.
OwnFailure(k) ==
    \/ activate.stop = k
    \/ \E c \in 1..Len(calls) :
          SameUri(calls[c].uri, activate.list[k]) /\ calls[c].pc = "failed"

\* C15: a repository whose watcher cannot be constructed does not affect the
\* others: when activate() is over, having got past every rev-parse it ran,
\* every listed repository and pin is tracked, except those whose own
\* construction failed.
C15_FailureIsIsolated ==
    (ActivateOver /\ activate.pc # "returned") =>
        \A k \in 1..Len(activate.list) :
            Tracked(activate.list[k]) \/ OwnFailure(k)

\* C16: at the end of activate() every pin of latestPins (whose own
\* construction did not fail) has a tracked Repo, listed at the root of the
\* tree.
C16_PinsAreTracked ==
    ActivateOver =>
        \A k \in (activate.nrep + 1)..Len(activate.list) :
            \/ OwnFailure(k)
            \/ \E i \in 1..Len(repos) :
                  /\ SameUri(repos[i].rootWorktree, activate.list[k])
                  /\ findRepo(RepositoryTreeID(repos[i].rootWorktree)) # NotFound

\* C17: every repository the Git extension enumerates (whose own tracking did
\* not fail) is tracked when activate() is over, and no repository is tracked
\* twice, however often it was also delivered by onDidOpenRepository.
C17_KnownRepositoriesAreTracked ==
    ActivateOver =>
        /\ \A k \in 1..activate.nrep :
              Tracked(activate.list[k]) \/ OwnFailure(k)
        /\ \A i, j \in 1..Len(repos) :
              SameUri(repos[i].rootWorktree, repos[j].rootWorktree) => i = j

----------------------------------------------------------------------------
(* Bare worktrees *)

\* The paths of the bare records (no HEAD) in the listing of Repo i.
BarePaths(i) ==
    LET records == worktreeList(CanonDir(repos[i].rootWorktree))
    IN  { records[k].worktree :
            k \in { j \in 1..Len(records) : records[j].HEAD = Undefined } }

----------------------------------------------------------------------------
(* Lookups *)

\* The worktree paths a listing can name.
WorktreePaths == Dirs \cup {"/w1", "/w2"}

\* The tree ids a caller can hand to findRepo: those of every spelling of a
\* repository's URI and those of every worktree.
LookupIDs ==
    { RepositoryTreeID(u) : u \in URIs }
      \cup { SubworktreeTreeID(wd) : wd \in WtDirs }
      \cup { WorktreeTreeID(p) : p \in WorktreePaths }

\* Repo i owns the tree id: it has the identity, or its snapshot has the
\* worktree.
Owns(i, treeid) ==
    CASE treeid[1] = "repository" -> UriToString(repos[i].rootWorktree) = treeid[2]
      [] treeid[1] = "subworktree" -> treeid[2] \in DOMAIN repos[i].otherWorktrees
      [] treeid[1] = "worktree" -> treeid[2] \in DOMAIN repos[i].worktrees

Unowned == { t \in LookupIDs : \A i \in 1..Len(repos) : ~Owns(i, t) }

\* C20: a lookup by a tree id that no tracked repository owns, an identity no
\* Repo has or a worktree in no snapshot, returns undefined in both revisions
\* of findRepo and does not throw.
C20_UnownedLookupIsNotFound ==
    \A t \in Unowned :
      /\ t[1] # "worktree" => findRepo(t) = NotFound
      /\ t[1] # "subworktree" => findRepoOfTreeID(t) = NotFound

\* Two repositories are tracked, one of them bare: the bare repository's path
\* is a worktree id in no snapshot, another spelling of a tracked URI is an
\* identity no Repo has, and a worktree of the other repository is found.
C20_LookupWitness ==
    /\ Len(repos) = 2
    /\ WorktreeTreeID("/r2") \in Unowned
    /\ \E t \in Unowned : t[1] = "repository"
    /\ findRepoOfTreeID(WorktreeTreeID("/w1")) # NotFound
    /\ findRepo(SubworktreeTreeID(<<"/r1", "a">>)) # NotFound

\* C21: findRepo resolves the identity of every tracked Repo to that Repo,
\* and resolves every key of a snapshot to a Repo whose snapshot has the key;
\* findSubworktree returns the entry that this same Repo holds for the key.
C21_LookupsAgree ==
    \A i \in 1..Len(repos) :
      /\ findRepo(RepositoryTreeID(repos[i].rootWorktree)) = i
      /\ \A key \in DOMAIN repos[i].otherWorktrees :
           LET r == findRepo(SubworktreeTreeID(key))
               w == findSubworktree(SubworktreeTreeID(key))
           IN  /\ r # NotFound
               /\ key \in DOMAIN repos[r].otherWorktrees
               /\ w # NoEntry
               /\ w.repo = r
               /\ w.info = repos[r].otherWorktrees[key]

\* Two Repos track one directory under two spellings and both snapshots have
\* the same key: the lookups by that key resolve to the first of them.
C21_SharedKeyWitness ==
    \E i, j \in 1..Len(repos) :
      /\ i < j
      /\ \E key \in DOMAIN repos[i].otherWorktrees \cap DOMAIN repos[j].otherWorktrees :
           /\ findRepo(SubworktreeTreeID(key)) = i
           /\ findSubworktree(SubworktreeTreeID(key)).repo = i

----------------------------------------------------------------------------
(* Deletion of the worktrees container *)

\* The step is the delete listener of Repo i handling the deletion of
\* <root>/.git/worktrees.
HandlesContainerDelete(i) ==
    /\ events # <<>>
    /\ Head(events) = [repo |-> i, kind |-> "delete", uri |-> Container]
    /\ events' = Tail(events)

\* What a full re-synchronization of a directory finds at this moment: the
\* metadata directories a handler would store an entry for.
ResyncKeys(d) == { wd \in Present(d) : ValidEntry(disk[wd]) }

\* C22: when the delete event of the worktrees container has been handled,
\* the snapshot has no linked worktree, and that is what a full
\* re-synchronization at that moment would find on disk.
C22_ContainerDeleteMatchesResync ==
    [][\A i \in 1..Len(repos) :
         HandlesContainerDelete(i)
           => /\ repos'[i].otherWorktrees = EmptyMap
              /\ ResyncKeys(RepoDir(i)) = {}]_vars

----------------------------------------------------------------------------
(* Triggering events and retries *)

\* The step is the create/change listener of a Repo taking an event.
TakesUpdateEvent ==
    /\ events # <<>>
    /\ Head(events).kind \in {"create", "change"}
    /\ events' = Tail(events)

\* C23: every create or change event below .git that reaches a Repo's
\* listener (worktree metadata, the worktrees container, refs) starts a
\* re-synchronization of that Repo's snapshot; none is dropped.
C23_UpdateEventStartsResync ==
    [][TakesUpdateEvent
         => /\ Len(handlers') = Len(handlers) + 1
            /\ handlers'[Len(handlers')].repo = Head(events).repo]_vars

\* The step is handler k ending at one of its reads.
Fails(k) ==
    /\ handlers[k].pc = "read"
    /\ handlers' = RemoveAt(handlers, k)

\* C24: a failed re-synchronization leaves the Repo watching as before; any
\* later create or change event of a worktree's metadata starts a new
\* attempt, and an attempt whose reads succeeded stores what it read.
C24_FailureThenRetry ==
    [][/\ \A k \in 1..Len(handlers) :
            Fails(k) => repos' = repos /\ events' = events
       /\ (TakesUpdateEvent /\ parseWorktreeInfoDir(Head(events).uri) # Undefined)
            => /\ Len(handlers') = Len(handlers) + 1
               /\ handlers'[Len(handlers')].repo = Head(events).repo
               /\ handlers'[Len(handlers')].pc = "read"
       /\ \A k \in 1..Len(handlers) :
            Applies(k)
              => LET h == handlers[k]
                 IN  /\ h.key \in DOMAIN repos'[h.repo].otherWorktrees
                     /\ repos'[h.repo].otherWorktrees[h.key] =
                          [dir |-> h.dir, ref |-> h.ref]]_vars

\* The initial load found the gitdir file of worktree a damaged and its
\* handler ended without an entry; the file was repaired since, and the
\* handler started by the change event has read it and is about to store it.
C24_RetryWitness ==
    /\ Len(repos) >= 1
    /\ repos[1].load = "done"
    /\ repos[1].subscribed
    /\ <<"/r1", "a">> \notin DOMAIN repos[1].otherWorktrees
    /\ disk[<<"/r1", "a">>] # Absent
    /\ disk[<<"/r1", "a">>].gitdir = [ok |-> TRUE, path |-> "/w2"]
    /\ \E k \in 1..Len(handlers) :
         /\ handlers[k].repo = 1
         /\ handlers[k].src = "event"
         /\ handlers[k].pc = "apply"
    /\ \A k \in 1..Len(handlers) : handlers[k].src = "event"

----------------------------------------------------------------------------
(* What a subscriber reads when it is notified *)

\* The notification of this step comes from a handler that has stored its
\* entry in the snapshot of Repo i.
NotifiedOfEntry(i) ==
    \E k \in 1..Len(handlers) :
      /\ handlers[k].repo = i
      /\ Applies(k)
      /\ handlers[k].key \in DOMAIN repos'[i].otherWorktrees
      /\ repos'[i].otherWorktrees[handlers[k].key] =
           [dir |-> handlers[k].dir, ref |-> handlers[k].ref]

\* The notification of this step comes from the delete listener of Repo i,
\* and what the event reports as deleted is no longer in the snapshot.
NotifiedOfDelete(i) ==
    /\ events # <<>>
    /\ Head(events).kind = "delete"
    /\ Head(events).repo = i
    /\ events' = Tail(events)
    /\ Head(events).uri = Container => repos'[i].otherWorktrees = EmptyMap
    /\ Head(events).uri.k = "dir"
         => <<RepoDir(i), Head(events).uri.n>> \notin DOMAIN repos'[i].otherWorktrees

\* C25: a notification is fired with the update in place: the state a
\* subscriber reads when it is notified of a repository has the entry the
\* handler stored, or lacks what the delete event reported, and when it is
\* notified of the whole tree the new Repo is in the registry.
C25_NotifiedAfterUpdate ==
    [][fired' # fired
         => \/ /\ fired'.payload = WholeTree
               /\ Len(repos') = Len(repos) + 1
            \/ \E i \in 1..Len(repos) :
                 /\ fired'.payload = RepositoryTreeID(repos[i].rootWorktree)
                 /\ Len(repos') = Len(repos)
                 /\ NotifiedOfEntry(i) \/ NotifiedOfDelete(i)]_vars

\* Every kind of notification has been fired: the last one names a
\* repository whose snapshot holds an entry stored after a change on disk and
\* lacks no entry of the disk.
C25_NotifiedWitness ==
    \E i \in 1..Len(repos) :
      /\ fired.payload = RepositoryTreeID(repos[i].rootWorktree)
      /\ nchanges > 0
      /\ handlers = <<>>
      /\ events = <<>>
      /\ repos[i].otherWorktrees # EmptyMap
      /\ repos[i].otherWorktrees = DiskView(RepoDir(i))

----------------------------------------------------------------------------
(* execute *)

\* C26: every execute call has started exactly one child process, however
\* the process ended, and has resolved at most once; a call that has resolved
\* carries an error exactly when its process did not exit with status 0.
C26_OneProcessNoRetry ==
    \A c \in 1..Len(execs) :
      /\ execs[c].spawned = 1
      /\ execs[c].resolved <= 1
      /\ execs[c].resolved = 1
           => /\ execs[c].outcome \in Outcomes
              /\ (execs[c].result.error # Null) <=> (execs[c].outcome # "exit0")

\* One call has resolved with an error, another without, a third is still
\* running.
C26_FailedAndSucceededWitness ==
    \E a, b, c \in 1..Len(execs) :
      /\ execs[a].resolved = 1 /\ execs[a].result.error # Null
      /\ execs[b].resolved = 1 /\ execs[b].result.error = Null
      /\ execs[c].resolved = 0

----------------------------------------------------------------------------
(* Order numbers of a listing *)

\* C27: the records of a listing are numbered 0..n-1 in input order, the
\* first one 0, counting the bare ones; a record of the visible map keeps the
\* number it has in the listing, whatever was filtered out before it.
C27_OrderIsInputPosition ==
    \A i \in 1..Len(repos) :
      LET records == worktreeList(CanonDir(repos[i].rootWorktree))
          visible == repos[i].worktrees
      IN  /\ \A k \in 1..Len(records) : records[k].order = k - 1
          /\ \A p \in DOMAIN visible :
               /\ visible[p].order + 1 \in 1..Len(records)
               /\ records[visible[p].order + 1] = visible[p]

\* A bare repository with a linked worktree is tracked: its visible map has
\* no record numbered 0 and the linked worktree is numbered 1.
C27_BareFirstWitness ==
    \E i \in 1..Len(repos) :
      /\ BarePaths(i) # {}
      /\ repos[i].worktrees # EmptyMap
      /\ \A p \in DOMAIN repos[i].worktrees : repos[i].worktrees[p].order = 1

----------------------------------------------------------------------------
(* trackedRepos after a failed construction *)

\* C28: every entry of trackedRepos is the directory of a Repo in repos or of
\* a trackRepo call still awaiting Repo.init: a directory whose construction
\* failed is not left marked as tracked.
C28_TrackedIsBuiltOrBuilding ==
    \A k \in 1..Len(trackedRepos) :
      \/ \E i \in 1..Len(repos) : SameUri(repos[i].rootWorktree, trackedRepos[k])
      \/ \E c \in 1..Len(calls) :
           /\ calls[c].pc = "init"
           /\ SameUri(calls[c].uri, trackedRepos[k])

----------------------------------------------------------------------------
(* Handlers overtaken by a delete event *)

\* A delete event that removes the entry of metadata directory wd from the
\* snapshot of Repo i is still to be delivered.
DeletePending(i, wd) ==
    \E n \in 1..Len(events) :
      /\ events[n].repo = i
      /\ events[n].kind = "delete"
      /\ events[n].uri \in {Container, InfoDir(wd[2])}

\* C29: once the delete event of a removed metadata directory has been
\* handled, no handler puts the entry back: a handler that stores an entry
\* does so for a directory that is on disk or whose delete event is still to
\* come.
C29_DeletedStaysAbsent ==
    [][\A k \in 1..Len(handlers) :
         Applies(k)
           => \/ disk[handlers[k].key] # Absent
              \/ DeletePending(handlers[k].repo, handlers[k].key)]_vars

----------------------------------------------------------------------------
(* Pins *)

\* Nothing of the pins is under way: every write has completed and every
\* change event of the file has been handled.
PinsSettled == globalState.writes = <<>> /\ globalState.changes = 0

\* C30: when only addPinned was called and all writes and change events are
\* through, every URI given to an addPinned call is pinned, also when two
\* calls were made before latestPins was refreshed.
C30_NoLostPin ==
    (PinsSettled /\ \A n \in 1..Len(globalState.log) : globalState.log[n].op = "add")
      => \A n \in 1..Len(globalState.log) :
           \A k \in 1..Len(globalState.log[n].uris) :
             isPinned(globalState.log[n].uris[k])

\* The Repo at position i of the registry is tracked for a directory that is
\* not pinned.
TrackedUnpinned(i) == ~isPinned(UriToString(repos[i].rootWorktree))

\* C33: no step of the pin commands, the writes to the pins file and the
\* pins_changed subscriber takes a Repo out of the registry, moves it or
\* disposes it: the registry only grows at its end.
C33_RegistryNeverShrinks ==
    [][/\ Len(repos') >= Len(repos)
       /\ \A i \in 1..Len(repos) :
            /\ repos'[i].rootWorktree = repos[i].rootWorktree
            /\ repos[i].subscribed => repos'[i].subscribed]_vars

\* A repository was pinned and tracked, then unpinned by removePinned or
\* by remove-all-pins; the unpinning is through and its Repo is still there.
C33_UnpinnedStillTrackedWitness ==
    /\ PinsSettled
    /\ Len(globalState.log) = 2
    /\ globalState.log[1].op = "add"
    /\ globalState.log[2].op \in {"remove", "removeAll"}
    /\ globalState.latestPins = <<>>
    /\ Len(repos) = 1
    /\ repos[1].subscribed
    /\ TrackedUnpinned(1)

\* The step is the change listener of the pins file handling an event:
\* every other step of the pins adds to the log or to the writes, or takes
\* a write away.
HandlesPinsChange ==
    /\ globalState.changes > 0
    /\ globalState'.log = globalState.log
    /\ globalState'.writes = globalState.writes
    /\ globalState' # globalState

C35_NoPinTwice ==
    \A j, k \in 1..Len(globalState.latestPins) :
      j # k => UriToString(globalState.latestPins[j])
                 # UriToString(globalState.latestPins[k])

\* C36: latestPins changes only in a step of the change listener of the
\* pins file, never in addPinned or removePinned: a URI given to addPinned
\* does not count as pinned before the change event has been handled.
C36_OnlyRefreshSetsLatestPins ==
    [][globalState'.latestPins # globalState.latestPins
         => HandlesPinsChange]_vars

\* addPinned was called for a URI and its write is in the file, the change
\* event has not been handled yet, and the URI is not pinned.
C36_WrittenNotYetPinnedWitness ==
    /\ Len(globalState.log) = 1
    /\ globalState.log[1].op = "add"
    /\ globalState.writes = <<>>
    /\ globalState.changes = 1
    /\ globalState.file = globalState.log[1].uris
    /\ ~isPinned(globalState.log[1].uris[1])

\* The call c of the log changes nothing of the pins: addPinned of URIs
\* that are all pinned, or removePinned of URIs none of which is pinned.
NothingToDo(c) ==
    \/ c.op = "add" /\ \A k \in 1..Len(c.uris) : isPinned(c.uris[k])
    \/ c.op = "remove" /\ \A k \in 1..Len(c.uris) : ~isPinned(c.uris[k])

\* C37: a call of addPinned with pinned URIs only, or of removePinned with
\* URIs that are not pinned only, starts no write, leaves the pins file as
\* it is and causes neither a change event nor a pins_changed event.
C37_NothingToDoWritesNothing ==
    [][(/\ Len(globalState'.log) = Len(globalState.log) + 1
        /\ NothingToDo(globalState'.log[Len(globalState'.log)]))
         => /\ globalState'.writes = globalState.writes
            /\ globalState'.file = globalState.file
            /\ globalState'.fileState = globalState.fileState
            /\ globalState'.changes = globalState.changes
            /\ fired' = fired]_vars

\* One URI is pinned, removePinned was called for another one, and the
\* file and latestPins hold the one pin with nothing under way.
C37_RemoveOfUnpinnedWitness ==
    /\ PinsSettled
    /\ Len(globalState.log) = 2
    /\ globalState.log[1].op = "add"
    /\ globalState.log[2].op = "remove"
    /\ globalState.log[1].uris # globalState.log[2].uris
    /\ Len(globalState.log[1].uris) = 1
    /\ globalState.file = globalState.log[1].uris
    /\ pinStrings(globalState.latestPins) = globalState.log[1].uris

----------------------------------------------------------------------------
(* Frame of the listeners *)

\* The step is the delete listener of Repo i taking an event.
TakesDeleteEvent(i) ==
    /\ events # <<>>
    /\ Head(events).kind = "delete"
    /\ Head(events).repo = i
    /\ events' = Tail(events)

\* C31: a delete event for the metadata directory that is the key of an
\* entry removes that entry and leaves every other entry as it was; a delete
\* event for anything else but the worktrees container leaves the snapshot
\* as it was.
C31_DeleteRemovesOneEntry ==
    [][\A i \in 1..Len(repos) :
         TakesDeleteEvent(i)
           => LET uri == Head(events).uri
                  key == <<RepoDir(i), uri.n>>
                  old == repos[i].otherWorktrees
                  new == repos'[i].otherWorktrees
              IN  /\ (uri.k = "dir" /\ key \in DOMAIN old)
                       => /\ DOMAIN new = DOMAIN old \ {key}
                          /\ \A wd \in DOMAIN new : new[wd] = old[wd]
                  /\ (uri # Container /\ ~(uri.k = "dir" /\ key \in DOMAIN old))
                       => new = old]_vars

\* Of the two worktrees in the snapshot of a repository one was removed on
\* disk and its delete event has been handled: the other entry is still
\* there, with the data it has on disk.
C31_OtherEntryKeptWitness ==
    \E i \in 1..Len(repos) :
      /\ nchanges > 0
      /\ events = <<>>
      /\ handlers = <<>>
      /\ Cardinality(Present(RepoDir(i))) = 1
      /\ DOMAIN repos[i].otherWorktrees = Present(RepoDir(i))
      /\ repos[i].otherWorktrees = DiskView(RepoDir(i))
      /\ \E wd \in WtDirs : wd[1] = RepoDir(i) /\ wd[2] # "c" /\ disk[wd] = Absent

\* The step handles a file-system event of Repo i: a listener of its
\* watcher takes the event, or a handler started for it reads or stores.
HandlesEventOf(i) ==
    \/ TakesDeleteEvent(i)
    \/ TakesUpdateEvent /\ Head(events).repo = i
    \/ \E k \in 1..Len(handlers) :
         /\ handlers[k].repo = i
         /\ \/ handlers' = RemoveAt(handlers, k)
            \/ /\ Len(handlers') = Len(handlers)
               /\ handlers'[k].pc # handlers[k].pc

\* C32: handling a file-system event of one repository leaves the registry's
\* list of repositories and every other repository as they were.
C32_OtherReposUntouched ==
    [][\A i \in 1..Len(repos) :
         HandlesEventOf(i)
           => /\ Len(repos') = Len(repos)
              /\ repos'[i].rootWorktree = repos[i].rootWorktree
              /\ \A j \in 1..Len(repos) : j # i => repos'[j] = repos[j]]_vars

\* Two repositories are tracked and both snapshots have entries: the one of
\* the second got its entry from the events of a git worktree add.
C32_TwoReposWitness ==
    \E i, j \in 1..Len(repos) :
      /\ i # j
      /\ <<"/r2", "c">> \in DOMAIN repos[i].otherWorktrees
      /\ Cardinality(DOMAIN repos[j].otherWorktrees) = 2
      /\ handlers = <<>>

====
